---- MODULE Spec2Model ----
(***************************************************************************)
(* A model of bedrock-sdxl.py: a command-line pipeline that parses its     *)
(* arguments, builds a JSON request body, invokes the remote model once    *)
(* and writes one .json/.png pair per returned artifact.                   *)
(*                                                                         *)
(* Python str values are sequences of one-character strings; Python ints   *)
(* are two-limb base-65536 numbers <<hi, lo>> (SEED_MAX = 2^32 - 1 does    *)
(* not fit TLC's 32-bit signed integers); Python floats are decimals       *)
(* <<integer part, fraction digits>>.                                      *)
(***************************************************************************)
EXTENDS Integers, Sequences, FiniteSets, TLC

VARIABLES
    pc,              \* position of the process in the pipeline
    args,            \* the argparse namespace
    node,            \* what uuid.getnode() returns on this machine
    body,            \* the request body (a Python dict, insertion ordered)
    body_serialized, \* json.dumps(body)
    invoked,         \* the bodies handed to runtime.invoke_model, in order
    response_body,   \* the decoded response envelope
    i,               \* index of the next artifact to write (0-based)
    fs,              \* the files written: name |-> content
    exit_code,       \* -1 while running, then the process's exit status
    error,           \* what ended the process: "none" or the error's kind
    n_pc,            \* position of the normalize_str harness
    n_in,            \* the harness's input string
    n_out,           \* normalize_str(n_in)
    n_out2           \* normalize_str(n_out)

vars == <<pc, args, node, body, body_serialized, invoked, response_body, i, fs,
          exit_code, error, n_pc, n_in, n_out, n_out2>>

pipeline_vars == <<pc, args, node, body, body_serialized, invoked, response_body,
                   i, fs, exit_code, error>>

norm_vars == <<n_pc, n_in, n_out, n_out2>>

----------------------------------------------------------------------------
(* Bounds *)

MaxPrompts == 4      \* longest -p token list
MaxOverrides == 4    \* longest -b token list
MaxArtifacts == 2    \* most artifacts in a response
MaxStrLen == 4       \* longest input string of the normalize_str harness

----------------------------------------------------------------------------
(* Characters and strings *)

Lower == {"a","b","c","d","e","f","g","h","i","j","k","l","m",
          "n","o","p","q","r","s","t","u","v","w","x","y","z"}
Upper == {"A","B","C","D","E","F","G","H","I","J","K","L","M",
          "N","O","P","Q","R","S","T","U","V","W","X","Y","Z"}
Digits == {"0","1","2","3","4","5","6","7","8","9"}
Alnum == Lower \cup Upper \cup Digits

DigitSeq == <<"0","1","2","3","4","5","6","7","8","9">>
HexSeq == DigitSeq \o <<"a","b","c","d","e","f">>

\* The printable ASCII characters in code order, from code 32 (space) to 126
\* (code 96, the grave accent, cannot be written in a string here and is
\* held by a placeholder no input contains).
PrintableAscii ==
    <<" ","!","\"","#","$","%","&","'","(",")","*","+",",","-",".","/">> \o
    DigitSeq \o
    <<":",";","<","=",">","?","@">> \o
    <<"A","B","C","D","E","F","G","H","I","J","K","L","M",
      "N","O","P","Q","R","S","T","U","V","W","X","Y","Z">> \o
    <<"[","\\","]","^","_","<grave>">> \o
    <<"a","b","c","d","e","f","g","h","i","j","k","l","m",
      "n","o","p","q","r","s","t","u","v","w","x","y","z">> \o
    <<"{","|","}","~">>

IndexOf(seq, c) == CHOOSE k \in 1..Len(seq) : seq[k] = c

Ord(c) == 31 + IndexOf(PrintableAscii, c)

DigitVal(c) == IndexOf(DigitSeq, c) - 1

RECURSIVE Join(_, _)
\* sep.join(strs)
Join(strs, sep) ==
    IF Len(strs) = 0 THEN <<>>
    ELSE IF Len(strs) = 1 THEN strs[1]
    ELSE strs[1] \o sep \o Join(Tail(strs), sep)

RECURSIVE SeqsUpTo(_, _)
\* every sequence over S of length at most n
SeqsUpTo(S, n) ==
    IF n = 0 THEN {<<>>}
    ELSE LET shorter == SeqsUpTo(S, n - 1)
         IN  shorter \cup {Append(s, c) : s \in {t \in shorter : Len(t) = n - 1}, c \in S}

----------------------------------------------------------------------------
(* normalize_str *)

StripPunct(s) == SelectSeq(s, LAMBDA c : c \notin {",", ".", "'", "\""})

NonAlnumToUnderscore(s) ==
    [k \in 1..Len(s) |-> IF s[k] \in Alnum THEN s[k] ELSE "_"]

RECURSIVE CollapseUnderscores(_)
CollapseUnderscores(s) ==
    IF Len(s) < 2 THEN s
    ELSE IF s[1] = "_" /\ s[2] = "_" THEN CollapseUnderscores(Tail(s))
    ELSE <<s[1]>> \o CollapseUnderscores(Tail(s))

RECURSIVE LStripUnderscores(_)
LStripUnderscores(s) ==
    IF Len(s) > 0 /\ s[1] = "_" THEN LStripUnderscores(Tail(s)) ELSE s

RECURSIVE RStripUnderscores(_)
RStripUnderscores(s) ==
    IF Len(s) > 0 /\ s[Len(s)] = "_"
    THEN RStripUnderscores(SubSeq(s, 1, Len(s) - 1))
    ELSE s

\* A slip in the order of the substitutions: runs are collapsed and the ends
\* trimmed before the punctuation is stripped and the rest replaced.
normalize_str_reordered(s) ==
    NonAlnumToUnderscore(StripPunct(
        RStripUnderscores(LStripUnderscores(CollapseUnderscores(s)))))

normalize_str(s) ==
    RStripUnderscores(LStripUnderscores(CollapseUnderscores(
        NonAlnumToUnderscore(StripPunct(s)))))

----------------------------------------------------------------------------
(* Python values *)

Base == 256 * 256    \* the limb base, 65536

StrV(s) == [t |-> "str", v |-> s]
IntV(n) == [t |-> "int", v |-> n]
FloatV(ip, fr) == [t |-> "float", v |-> <<ip, fr>>]
ListV(xs) == [t |-> "list", v |-> xs]
DictV(d) == [t |-> "dict", v |-> d]

Zero == <<0, 0>>

RECURSIVE DecToLimbs(_, _)
\* the number a digit string denotes, most significant digit first
DecToLimbs(s, acc) ==
    IF Len(s) = 0 THEN acc
    ELSE LET lo == acc[2] * 10 + DigitVal(s[1])
         IN  DecToLimbs(Tail(s), <<acc[1] * 10 + lo \div Base, lo % Base>>)

DivMod10(n) ==
    LET rest == (n[1] % 10) * Base + n[2]
    IN  [q |-> <<n[1] \div 10, rest \div 10>>, r |-> rest % 10]

RECURSIVE LimbDigits(_)
LimbDigits(n) ==
    IF n = Zero THEN <<>>
    ELSE LimbDigits(DivMod10(n).q) \o <<DigitSeq[DivMod10(n).r + 1]>>

\* repr of a non-negative int
IntRepr(n) == IF n = Zero THEN <<"0">> ELSE LimbDigits(n)

IsDigits(s) == Len(s) > 0 /\ \A k \in 1..Len(s) : s[k] \in Digits

\* int(s) for a str s: the plain decimal literals; anything else in the
\* inputs considered here raises ValueError (ok = FALSE).
PyInt(s) ==
    IF IsDigits(s) THEN [ok |-> TRUE, val |-> IntV(DecToLimbs(s, Zero))]
    ELSE [ok |-> FALSE, val |-> IntV(Zero)]

RECURSIVE RStripZeros(_)
RStripZeros(s) ==
    IF Len(s) > 0 /\ s[Len(s)] = "0" THEN RStripZeros(SubSeq(s, 1, Len(s) - 1)) ELSE s

\* float(x): a float is returned as it is; a str is parsed as a plain decimal
\* literal (digits, at most one point, at least one digit); anything else in
\* the inputs considered here raises ValueError (ok = FALSE).
PyFloat(x) ==
    IF x.t = "float" THEN [ok |-> TRUE, val |-> x]
    ELSE LET s == x.v
             points == {k \in 1..Len(s) : s[k] = "."}
             cut == IF points = {} THEN Len(s) + 1 ELSE CHOOSE k \in points : TRUE
             ip == SubSeq(s, 1, cut - 1)
             fr == SubSeq(s, cut + 1, Len(s))
             wellformed == /\ Cardinality(points) <= 1
                           /\ \A k \in 1..Len(ip) : ip[k] \in Digits
                           /\ \A k \in 1..Len(fr) : fr[k] \in Digits
                           /\ Len(ip) + Len(fr) > 0
         IN  IF wellformed
             THEN [ok |-> TRUE, val |-> FloatV(DecToLimbs(ip, Zero), RStripZeros(fr))]
             ELSE [ok |-> FALSE, val |-> FloatV(Zero, <<>>)]

\* repr of a float in the positional range
FloatRepr(f) == IntRepr(f[1]) \o <<".">> \o (IF Len(f[2]) = 0 THEN <<"0">> ELSE f[2])

----------------------------------------------------------------------------
(* Python dicts: a sequence of <<key, value>>, in insertion order *)

DictHas(d, k) == \E n \in 1..Len(d) : d[n][1] = k

DictGet(d, k) == d[CHOOSE n \in 1..Len(d) : d[n][1] = k][2]

\* d[k] = v: an existing key keeps its place
DictSet(d, k, v) ==
    IF DictHas(d, k)
    THEN [n \in 1..Len(d) |-> IF d[n][1] = k THEN <<k, v>> ELSE d[n]]
    ELSE Append(d, <<k, v>>)

RECURSIVE DictUpdate(_, _)
\* {**d, **e}
DictUpdate(d, e) ==
    IF Len(e) = 0 THEN d
    ELSE DictUpdate(DictSet(d, e[1][1], e[1][2]), Tail(e))

DictKeys(d) == {d[n][1] : n \in 1..Len(d)}

----------------------------------------------------------------------------
(* json.dumps with its default separators, for printable ASCII text *)

RECURSIVE JsonEscape(_)
JsonEscape(s) ==
    IF Len(s) = 0 THEN <<>>
    ELSE (IF s[1] \in {"\"", "\\"} THEN <<"\\", s[1]>> ELSE <<s[1]>>)
         \o JsonEscape(Tail(s))

JsonStr(s) == <<"\"">> \o JsonEscape(s) \o <<"\"">>

RECURSIVE json_dumps(_)
json_dumps(x) ==
    CASE x.t = "str" -> JsonStr(x.v)
      [] x.t = "int" -> IntRepr(x.v)
      [] x.t = "float" -> FloatRepr(x.v)
      [] x.t = "list" ->
            <<"[">> \o Join([n \in 1..Len(x.v) |-> json_dumps(x.v[n])], <<",", " ">>)
            \o <<"]">>
      [] x.t = "dict" ->
            <<"{">> \o Join([n \in 1..Len(x.v) |->
                               JsonStr(x.v[n][1]) \o <<":", " ">> \o json_dumps(x.v[n][2])],
                            <<",", " ">>)
            \o <<"}">>

----------------------------------------------------------------------------
(* pairs, get_stable_seed, get_body_defaults, parse_prompt *)

\* list(zip(*(iter(_list),) * 2)): adjacent pairs; an odd last item is dropped
pairs(_list) == [k \in 1..(Len(_list) \div 2) |-> <<_list[2 * k - 1], _list[2 * k]>>]

SEED_MAX == <<Base - 1, Base - 1>>    \* 4294967295 = 2^32 - 1

\* uuid.getnode() % SEED_MAX for a 48-bit node <<a, b, c>> = a*2^32 + b*2^16 + c.
\* As 2^32 = SEED_MAX + 1, the node is congruent to b*2^16 + (a + c), which
\* is below 2*SEED_MAX: it is carried into two limbs, folded once more when
\* it reaches 2^32, and SEED_MAX itself reduces to 0.
get_stable_seed(nd) ==
    LET low == nd[3] + nd[1]
        hi == nd[2] + low \div Base
        lo == low % Base
        folded == IF hi >= Base THEN <<hi - Base, lo + 1>> ELSE <<hi, lo>>
    IN  IF folded = SEED_MAX THEN Zero ELSE folded

K_seed == <<"s","e","e","d">>
K_text_prompts == <<"t","e","x","t","_","p","r","o","m","p","t","s">>
K_text == <<"t","e","x","t">>
K_weight == <<"w","e","i","g","h","t">>
K_height == <<"h","e","i","g","h","t">>
K_width == <<"w","i","d","t","h">>
K_cfg_scale == <<"c","f","g","_","s","c","a","l","e">>
K_samples == <<"s","a","m","p","l","e","s">>
K_steps == <<"s","t","e","p","s">>

get_body_defaults(nd) == << <<K_seed, IntV(get_stable_seed(nd))>> >>

\* the keys whose override is coerced with int()
NumericKeys == {K_height, K_width, K_cfg_scale, K_samples, K_seed, K_steps}

One == FloatV(<<0, 1>>, <<>>)    \* the float 1.0

PromptDict(pair, weight) == DictV(<< <<K_text, pair[1]>>, <<K_weight, weight>> >>)

\* parse_prompt appending the implicit weight to the caller's list instead of
\* to a copy of it.
parse_prompt_aliased(prompts) ==
    LET _prompts == IF Len(prompts) = 1
                    THEN <<StrV(prompts[1]), One>>
                    ELSE [k \in 1..Len(prompts) |-> StrV(prompts[k])]
        ps == pairs(_prompts)
    IN  [ok  |-> \A k \in 1..Len(ps) : PyFloat(ps[k][2]).ok,
         val |-> [k \in 1..Len(ps) |-> PromptDict(ps[k], PyFloat(ps[k][2]).val)],
         arg |-> IF Len(prompts) = 1 THEN Append(prompts, <<"1", ".", "0">>) ELSE prompts]

\* parse_prompt(prompts): ok = FALSE when float() raises ValueError; val is
\* the returned list; arg is the caller's list after the call.
parse_prompt(prompts) ==
    LET copy == [k \in 1..Len(prompts) |-> StrV(prompts[k])]
        _prompts == IF Len(copy) = 1 THEN Append(copy, One) ELSE copy
        ps == pairs(_prompts)
    IN  [ok  |-> \A k \in 1..Len(ps) : PyFloat(ps[k][2]).ok,
         val |-> [k \in 1..Len(ps) |-> PromptDict(ps[k], PyFloat(ps[k][2]).val)],
         arg |-> prompts]


----------------------------------------------------------------------------
(* SHA-256 over 32-bit words held as two 16-bit limbs <<hi, lo>> *)

\* the bitwise exclusive or and the bitwise and of two 4-bit numbers, at
\* index 16 * a + b
XorNibble ==
    [k \in 0..255 |->
        LET a == k \div 16
            b == k % 16
            Bit(n) == (((a \div (2 ^ n)) + (b \div (2 ^ n))) % 2) * (2 ^ n)
        IN  Bit(0) + Bit(1) + Bit(2) + Bit(3)]

AndNibble ==
    [k \in 0..255 |->
        LET a == k \div 16
            b == k % 16
            Bit(n) == (((a \div (2 ^ n)) % 2) * ((b \div (2 ^ n)) % 2)) * (2 ^ n)
        IN  Bit(0) + Bit(1) + Bit(2) + Bit(3)]

\* a 16-bit operation from its table of nibbles
Nibblewise(table, a, b) ==
    LET At(n) == table[((a \div (16 ^ n)) % 16) * 16 + ((b \div (16 ^ n)) % 16)] * (16 ^ n)
    IN  At(0) + At(1) + At(2) + At(3)

\* In the operators below CHOOSE r \in {e : a \in {x}} : TRUE is e with a
\* standing for the value of x, which is worked out once however often e
\* uses it.

Xor32(x, y) ==
    CHOOSE r \in {<<Nibblewise(XorNibble, a[1][1], a[2][1]),
                    Nibblewise(XorNibble, a[1][2], a[2][2])>> : a \in {<<x, y>>}} : TRUE

And32(x, y) ==
    CHOOSE r \in {<<Nibblewise(AndNibble, a[1][1], a[2][1]),
                    Nibblewise(AndNibble, a[1][2], a[2][2])>> : a \in {<<x, y>>}} : TRUE

Not32(x) == CHOOSE r \in {<<Base - 1 - a[1], Base - 1 - a[2]>> : a \in {x}} : TRUE

\* addition modulo 2^32
Add32(x, y) ==
    CHOOSE r \in {<<(a[1][1] + a[2][1] + (a[1][2] + a[2][2]) \div Base) % Base,
                    (a[1][2] + a[2][2]) % Base>> : a \in {<<x, y>>}} : TRUE

\* rotation and shift to the right by n bits, 0 < n < 32
Rotr(x, n) ==
    LET m == n % 16
    IN  CHOOSE r \in {IF m = 0 THEN w
                      ELSE <<w[1] \div (2 ^ m) + (w[2] % (2 ^ m)) * (2 ^ (16 - m)),
                             w[2] \div (2 ^ m) + (w[1] % (2 ^ m)) * (2 ^ (16 - m))>> :
                      w \in {IF n >= 16 THEN <<x[2], x[1]>> ELSE x}} : TRUE

Shr(x, n) ==
    CHOOSE r \in {<<w[1] \div (2 ^ n),
                    w[2] \div (2 ^ n) + (w[1] % (2 ^ n)) * (2 ^ (16 - n))>> :
                  w \in {x}} : TRUE

Xor3(x, y, z) == Xor32(Xor32(x, y), z)

BigSigma0(x) == Xor3(Rotr(x, 2), Rotr(x, 13), Rotr(x, 22))
BigSigma1(x) == Xor3(Rotr(x, 6), Rotr(x, 11), Rotr(x, 25))
SmallSigma0(x) == Xor3(Rotr(x, 7), Rotr(x, 18), Shr(x, 3))
SmallSigma1(x) == Xor3(Rotr(x, 17), Rotr(x, 19), Shr(x, 10))
Ch(x, y, z) == Xor32(And32(x, y), And32(Not32(x), z))
Maj(x, y, z) == Xor3(And32(x, y), And32(x, z), And32(y, z))

\* the round constants and the initial hash value
ShaK ==
    <<<<17034, 12184>>, <<28983, 17553>>, <<46528, 64463>>, <<59829, 56229>>,
      <<14678, 49755>>, <<23025, 4593>>, <<37439, 33444>>, <<43804, 24277>>,
      <<55303, 43672>>, <<4739, 23297>>, <<9265, 34238>>, <<21772, 32195>>,
      <<29374, 23924>>, <<32990, 45566>>, <<39900, 1703>>, <<49563, 61812>>,
      <<58523, 27073>>, <<61374, 18310>>, <<4033, 40390>>, <<9228, 41420>>,
      <<11753, 11375>>, <<19060, 33962>>, <<23728, 43484>>, <<30457, 35034>>,
      <<38974, 20818>>, <<43057, 50797>>, <<45059, 10184>>, <<48985, 32711>>,
      <<50912, 3059>>, <<54695, 37191>>, <<1738, 25425>>, <<5161, 10599>>,
      <<10167, 2693>>, <<11803, 8504>>, <<19756, 28156>>, <<21304, 3347>>,
      <<25866, 29524>>, <<30314, 2747>>, <<33218, 51502>>, <<37490, 11397>>,
      <<41663, 59553>>, <<43034, 26187>>, <<49739, 35696>>, <<51052, 20899>>,
      <<53650, 59417>>, <<54937, 1572>>, <<62478, 13701>>, <<4202, 41072>>,
      <<6564, 49430>>, <<7735, 27656>>, <<10056, 30540>>, <<13488, 48309>>,
      <<14620, 3251>>, <<20184, 43594>>, <<23452, 51791>>, <<26670, 28659>>,
      <<29839, 33518>>, <<30885, 25455>>, <<33992, 30740>>, <<36039, 520>>,
      <<37054, 65530>>, <<42064, 27883>>, <<48889, 41975>>, <<50801, 30962>>>>

ShaH0 ==
    <<<<27145, 58983>>, <<47975, 44677>>, <<15470, 62322>>, <<42319, 62778>>,
      <<20750, 21119>>, <<39685, 26764>>, <<8067, 55723>>, <<23520, 52505>>>>

\* the message with its padding: a 1 bit, zeros up to 56 modulo 64 bytes, and
\* the length in bits as 64 bits (of a message below 8192 bytes)
ShaPadded(bytes) ==
    LET n == Len(bytes)
        zeros == (64 - ((n + 9) % 64)) % 64
        bits == 8 * n
    IN  bytes \o <<128>> \o [k \in 1..(zeros + 6) |-> 0] \o <<bits \div 256, bits % 256>>

\* the 16 words of block b (from 0) of the padded message
ShaBlock(padded, b) ==
    [k \in 1..16 |->
        LET at == 64 * b + 4 * (k - 1)
        IN  <<padded[at + 1] * 256 + padded[at + 2], padded[at + 3] * 256 + padded[at + 4]>>]

\* the message schedule extended by word t (from 0), 16 <= t
ShaExtend(w, t) ==
    Append(w, Add32(Add32(SmallSigma1(w[t - 1]), w[t - 6]),
                    Add32(SmallSigma0(w[t - 14]), w[t - 15])))

\* round t (from 0) on the working variables <<a, b, c, d, e, f, g, h>>
ShaRound(v, w, t) ==
    CHOOSE r \in
        {<<Add32(t1, Add32(BigSigma0(v[1]), Maj(v[1], v[2], v[3]))),
           v[1], v[2], v[3], Add32(v[4], t1), v[5], v[6], v[7]>> :
         t1 \in {Add32(Add32(Add32(v[8], BigSigma1(v[5])), Ch(v[5], v[6], v[7])),
                       Add32(ShaK[t + 1], w[t + 1]))}} : TRUE

RECURSIVE ShaSchedule(_, _, _)
\* ShaExtend for t = lo..hi in turn, by halves
ShaSchedule(w, lo, hi) ==
    IF lo = hi THEN ShaExtend(w, lo)
    ELSE CHOOSE r \in {ShaSchedule(first, (lo + hi) \div 2 + 1, hi) :
                       first \in {ShaSchedule(w, lo, (lo + hi) \div 2)}} : TRUE

RECURSIVE ShaRounds(_, _, _, _)
\* ShaRound for t = lo..hi in turn, by halves
ShaRounds(v, w, lo, hi) ==
    IF lo = hi THEN ShaRound(v, w, lo)
    ELSE CHOOSE r \in {ShaRounds(first, w, (lo + hi) \div 2 + 1, hi) :
                       first \in {ShaRounds(v, w, lo, (lo + hi) \div 2)}} : TRUE

\* the hash value after one more block
ShaCompress(h, block) ==
    CHOOSE r \in {[k \in 1..8 |-> Add32(h[k], v[k])] :
                  v \in UNION {{ShaRounds(h, w, 0, 63)} :
                               w \in {ShaSchedule(block, 16, 63)}}} : TRUE

RECURSIVE ShaBlocks(_, _, _, _)
\* the hash value after the blocks b..n-1 of the padded message
ShaBlocks(h, padded, b, n) ==
    IF b = n THEN h
    ELSE CHOOSE r \in {ShaBlocks(next, padded, b + 1, n) :
                       next \in UNION {{ShaCompress(h, block)} :
                                       block \in {ShaBlock(padded, b)}}} : TRUE

\* hashlib.sha256(bytes).digest() as eight words
sha256(bytes) ==
    CHOOSE r \in {ShaBlocks(ShaH0, padded, 0, Len(padded) \div 64) :
                  padded \in UNION {{ShaPadded(b)} : b \in {bytes}}} : TRUE

----------------------------------------------------------------------------
(* base64 *)

B64Alphabet ==
    <<"A","B","C","D","E","F","G","H","I","J","K","L","M",
      "N","O","P","Q","R","S","T","U","V","W","X","Y","Z">> \o
    <<"a","b","c","d","e","f","g","h","i","j","k","l","m",
      "n","o","p","q","r","s","t","u","v","w","x","y","z">> \o
    DigitSeq \o <<"+","/">>

InB64(c) == \E k \in 1..Len(B64Alphabet) : B64Alphabet[k] = c

RECURSIVE B64From(_, _, _, _, _, _)
\* binascii.a2b_base64 in its default, non-strict mode: characters outside
\* the alphabet are skipped, enough padding after two or three characters of
\* a quad ends the data, and data that ends inside a quad is an error.
B64From(s, k, quad, left, pads, out) ==
    IF k > Len(s) THEN [ok |-> quad = 0, val |-> out]
    ELSE IF s[k] = "="
         THEN IF quad >= 2 /\ quad + pads + 1 >= 4
              THEN [ok |-> TRUE, val |-> out]
              ELSE B64From(s, k + 1, quad, left, pads + 1, out)
    ELSE IF ~InB64(s[k]) THEN B64From(s, k + 1, quad, left, pads, out)
    ELSE LET v == IndexOf(B64Alphabet, s[k]) - 1
         IN  CASE quad = 0 -> B64From(s, k + 1, 1, v, 0, out)
               [] quad = 1 -> B64From(s, k + 1, 2, v % 16, 0,
                                      Append(out, left * 4 + v \div 16))
               [] quad = 2 -> B64From(s, k + 1, 3, v % 4, 0,
                                      Append(out, left * 16 + v \div 4))
               [] quad = 3 -> B64From(s, k + 1, 0, 0, 0, Append(out, left * 64 + v))

\* base64.b64decode(s): ok = FALSE when it raises binascii.Error
b64decode(s) == B64From(s, 1, 0, 0, 0, <<>>)

----------------------------------------------------------------------------
(* The inputs considered *)

T_fox == <<"a"," ","f",".">>
T_half == <<"0",".","5">>
T_two == <<"2">>
V_42 == <<"4","2">>
K_style_preset == <<"s","t","y","l","e","_","p","r","e","s","e","t">>
D_output == <<"o","u","t","p","u","t">>

PromptTokens == {T_fox, T_half, T_two}
OverrideTokens == {K_seed, K_steps, K_style_preset, K_text_prompts, V_42}

\* 48-bit node values <<a, b, c>>: one above SEED_MAX, and SEED_MAX itself
Nodes == {<<18, 52719, 1>>, <<0, Base - 1, Base - 1>>}

\* the node of the machine of the pipeline runs
PipelineNode == <<18, 52719, 1>>

\* the request files on disk, as the documents json.loads makes of them;
\* "gone.json" does not exist
RequestFiles ==
    [p \in {"ok.json", "bare.json"} |->
        IF p = "ok.json"
        THEN << <<K_steps, IntV(<<0, 30>>)>>,
                <<K_text_prompts, ListV(<<PromptDict(<<StrV(T_fox)>>, One)>>)>> >>
        ELSE << <<K_seed, IntV(<<0, 7>>)>> >>]

Requests == {"", "ok.json", "bare.json", "gone.json"}

\* the -p and -b lists of the pipeline runs: absent, well formed (with and
\* without values that float() and int() take) and of odd length
PipelinePrompts == {<<>>, <<T_fox>>, <<T_fox, T_half>>, <<T_fox, T_fox>>,
                    <<T_fox, T_half, T_two>>, <<T_fox, T_half, T_two, T_half>>}
PipelineOverrides == {<<>>, <<K_seed, V_42>>, <<K_seed, K_seed>>, <<K_seed>>}

P_ABC == <<"Q","U","J","D">>  \* base64 of the bytes 65, 66, 67
P_cut == <<"Q">>              \* not base64: it ends inside a quad

Artifacts == {[base64 |-> P_ABC], [base64 |-> P_cut]}
Responses == [result : {"success", "error"},
              artifacts : SeqsUpTo(Artifacts, MaxArtifacts)]

NormChars == {"a", "Z", "7", "_", ".", "'", " "}

----------------------------------------------------------------------------
(* parse_args and the request builder *)

\* the three tests of parse_args that end in sys.exit(1), after a mistake in
\* the first bound: a single prompt token is rejected as an odd count
parse_args_rejects_single(a) ==
    \/ ~(Len(a.prompts) > 0 \/ a.request # "")
    \/ Len(a.prompts) > 0 /\ Len(a.prompts) >= 1 /\ Len(a.prompts) % 2 # 0
    \/ Len(a.body_params) > 0 /\ Len(a.body_params) % 2 # 0

\* the three tests of parse_args that end in sys.exit(1)
parse_args_rejects(a) ==
    \/ ~(Len(a.prompts) > 0 \/ a.request # "")
    \/ Len(a.prompts) > 0 /\ Len(a.prompts) > 2 /\ Len(a.prompts) % 2 # 0
    \/ Len(a.body_params) > 0 /\ Len(a.body_params) % 2 # 0

\* dict(pairs(args.body_params))
dict_of_pairs(tokens) ==
    DictUpdate(<<>>, [k \in 1..Len(pairs(tokens)) |->
                        <<pairs(tokens)[k][1], StrV(pairs(tokens)[k][2])>>])

\* the loop that replaces the value of every numeric key by int(v);
\* ok = FALSE when int() raises ValueError
coerce(d) ==
    [ok  |-> \A n \in 1..Len(d) : d[n][1] \in NumericKeys => PyInt(d[n][2].v).ok,
     val |-> [n \in 1..Len(d) |->
                IF d[n][1] \in NumericKeys THEN <<d[n][1], PyInt(d[n][2].v).val>> ELSE d[n]]]

\* the merge with the overrides written last
merge_body_overrides_last(defaults, body_params, prompts) ==
    DictUpdate(DictUpdate(defaults, << <<K_text_prompts, ListV(prompts)>> >>), body_params)

\* {**get_body_defaults(), **body_params, "text_prompts": prompts}
merge_body(defaults, body_params, prompts) ==
    DictUpdate(DictUpdate(defaults, body_params), << <<K_text_prompts, ListV(prompts)>> >>)

\* the else branch of generate_image that builds the body from -p and -b
build_body(a, nd) ==
    LET body_params == IF Len(a.body_params) > 0
                       THEN coerce(dict_of_pairs(a.body_params))
                       ELSE [ok |-> TRUE, val |-> <<>>]
        prompts == parse_prompt(a.prompts)
    IN  IF ~body_params.ok
        THEN [ok |-> FALSE, val |-> <<>>, arg |-> a.prompts]
        ELSE IF ~prompts.ok
        THEN [ok |-> FALSE, val |-> <<>>, arg |-> prompts.arg]
        ELSE [ok |-> TRUE,
              val |-> merge_body(get_body_defaults(nd), body_params.val, prompts.val),
              arg |-> prompts.arg]

\* the branch taken on the request file, tested on the prompts instead
loads_request_unless_prompts(a) == a.request # "" /\ Len(a.prompts) = 0

\* if args.request: the body is loaded from the file
loads_request(a) == a.request # ""

----------------------------------------------------------------------------
(* The fingerprint and the file names *)

Hex4(n) == <<HexSeq[(n \div 4096) + 1], HexSeq[((n \div 256) % 16) + 1],
             HexSeq[((n \div 16) % 16) + 1], HexSeq[(n % 16) + 1]>>

\* hashlib.sha256(s.encode('utf-8')).hexdigest()[0:8]: the first word of the
\* digest as 8 lowercase hexadecimal characters
hexdigest8(s) ==
    CHOOSE r \in {Hex4(digest[1][1]) \o Hex4(digest[1][2]) :
                  digest \in {sha256([k \in 1..Len(s) |-> Ord(s[k])])}} : TRUE

\* the bodies the pipeline runs serialize, from -p and -b and from -r
PipelineBodies ==
    {json_dumps(DictV(RequestFiles[p])) : p \in DOMAIN RequestFiles} \cup
    {json_dumps(DictV(build_body(a, PipelineNode).val)) :
        a \in {x \in [prompts : PipelinePrompts, body_params : PipelineOverrides,
                      request : {""}, output_dir : {D_output}] :
                  ~parse_args_rejects(x) /\ build_body(x, PipelineNode).ok}}

\* hexdigest8 of the pipeline's bodies, evaluated once
PipelineDigests == [s \in PipelineBodies |-> hexdigest8(s)]

\* body_hash of line 195, looked up where it is already evaluated
body_hash(serialized) ==
    IF serialized \in PipelineBodies THEN PipelineDigests[serialized]
    ELSE hexdigest8(serialized)

\* "_".join([normalize_str(prompt['text']) for prompt in prompts])
normalize_prompts(prompts) ==
    Join([k \in 1..Len(prompts) |-> normalize_str(DictGet(prompts[k].v, K_text).v)],
         <<"_">>)

S_json == <<".","j","s","o","n">>
S_png == <<".","p","n","g">>

\* os.path.join(dir, name) for a relative name
path_join(dir, name) ==
    IF Len(dir) = 0 \/ dir[Len(dir)] = "/" THEN dir \o name ELSE dir \o <<"/">> \o name

\* the suffix given to the first artifact as to the others
suffix_unconditional(k) == <<"_">> \o IntRepr(<<0, k>>)

\* f"_{i}" if i > 0 else ""
suffix(k) == IF k > 0 THEN <<"_">> \o IntRepr(<<0, k>>) ELSE <<>>

filename_base(bdy, serialized, k) ==
    normalize_prompts(DictGet(bdy, K_text_prompts).v) \o suffix(k) \o <<"_">>
    \o body_hash(serialized)

filename_json(a, base) == path_join(a.output_dir, base \o S_json)

filename_img(a, base) == path_join(a.output_dir, base \o S_png)

TextFile(chars) == [t |-> "text", v |-> chars]
BytesFile(bytes) == [t |-> "bytes", v |-> bytes]

\* what open(name, mode) and f.write(content) can do: both succeed; open
\* raises; or the write raises with only the first `kept` items of the content
\* in the file, any number short of all of them
WriteOutcomes(content) ==
    {[kind |-> "ok", kept |-> Len(content.v)], [kind |-> "open fails", kept |-> 0]}
    \cup {[kind |-> "write fails", kept |-> n] : n \in 0..(Len(content.v) - 1)}

\* the files after open(name, mode) and f.write(content) end as `outcome`:
\* a failed open leaves the files alone, a failed write leaves the file, new
\* or old, holding the part of the content that was written
FilesAfter(files, name, content, outcome) ==
    CASE outcome.kind = "ok" -> (name :> content) @@ files
      [] outcome.kind = "write fails" ->
            (name :> [content EXCEPT !.v = SubSeq(content.v, 1, outcome.kept)]) @@ files
      [] OTHER -> files

----------------------------------------------------------------------------
(* The pipeline *)

Exit(code, kind) ==
    /\ pc' = "exit"
    /\ exit_code' = code
    /\ error' = kind

\* parse_args(), lines 108-127
ParseArgs(a) ==
    /\ pc = "start"
    /\ IF parse_args_rejects(a)
       THEN Exit(1, "ArgumentError")
       ELSE pc' = "parsed" /\ UNCHANGED <<exit_code, error>>
    /\ UNCHANGED <<args, node, body, body_serialized, invoked, response_body, i, fs>>
    /\ UNCHANGED norm_vars

\* what create_runtime(args.aws_profile) can do: return the client, or raise
\* from boto3.Session(profile_name=...) or session.client(...), as the
\* machine's AWS configuration has it
create_runtime == {"client", "raises"}

\* generate_image up to json.dumps(body), lines 142-174
BuildRequest(a) ==
    /\ pc = "parsed"
    /\ \E runtime \in create_runtime :
         IF runtime = "raises"
         THEN /\ Exit(1, "SessionError")
              /\ UNCHANGED <<args, body, body_serialized>>
         ELSE IF loads_request(a)
         THEN /\ UNCHANGED args
              /\ IF a.request \in DOMAIN RequestFiles
                 THEN /\ body' = RequestFiles[a.request]
                      /\ body_serialized' = json_dumps(DictV(body'))
                      /\ pc' = "built"
                      /\ UNCHANGED <<exit_code, error>>
                 ELSE /\ Exit(1, "IOError")
                      /\ UNCHANGED <<body, body_serialized>>
         ELSE LET built == build_body(a, node)
              IN  /\ args' = [args EXCEPT !.prompts = built.arg]
                  /\ IF built.ok
                     THEN /\ body' = built.val
                          /\ body_serialized' = json_dumps(DictV(body'))
                          /\ pc' = "built"
                          /\ UNCHANGED <<exit_code, error>>
                     ELSE /\ Exit(1, "ValueError")
                          /\ UNCHANGED <<body, body_serialized>>
    /\ UNCHANGED <<node, invoked, response_body, i, fs>>
    /\ UNCHANGED norm_vars

\* should the process stop on this envelope, testing the wrong way round
stops_on_success(r) == r.result = "success"

\* if response_body["result"] != 'success'
stops_on(r) == r.result # "success"

\* runtime.invoke_model and the test of the envelope, lines 176-184
InvokeModel ==
    /\ pc = "built"
    /\ invoked' = Append(invoked, body_serialized)
    /\ \/ /\ Exit(1, "TransportError")
          /\ UNCHANGED <<response_body, i>>
       \/ \E r \in Responses :
            /\ response_body' = r
            /\ IF stops_on(r)
               THEN Exit(1, "ServiceResultError") /\ UNCHANGED i
               ELSE pc' = "writing" /\ i' = 0 /\ UNCHANGED <<exit_code, error>>
    /\ UNCHANGED <<args, node, body, body_serialized, fs>>
    /\ UNCHANGED norm_vars

\* if not args.request
writes_json(a) == a.request = ""

\* the loop body wrapped so that no exception leaves it
loop_failure_swallowed(json_written, oj, decoded, op) == "none"

\* the exception one turn of the loop raises, "none" when it raises none:
\* from writing the .json file, from b64decode, from writing the .png file
loop_failure(json_written, oj, decoded, op) ==
    IF json_written /\ oj.kind # "ok" THEN "IOError"
    ELSE IF ~decoded THEN "binascii.Error"
    ELSE IF op.kind # "ok" THEN "IOError"
    ELSE "none"

\* one turn of the loop over the artifacts, lines 192-211
WriteArtifact(a) ==
    /\ pc = "writing"
    /\ i < Len(response_body.artifacts)
    /\ IF ~DictHas(body, K_text_prompts)
       THEN Exit(1, "KeyError") /\ UNCHANGED <<i, fs>>
       ELSE \E filename_base_i \in {filename_base(body, body_serialized, i)} :
              LET artifact == response_body.artifacts[i + 1]
                  json == filename_json(a, filename_base_i)
                  img == filename_img(a, filename_base_i)
                  text == TextFile(body_serialized)
                  img_data == b64decode(artifact.base64)
                  image == BytesFile(img_data.val)
              IN  \E oj \in WriteOutcomes(text), op \in WriteOutcomes(image) :
                    LET fs1 == IF writes_json(a) THEN FilesAfter(fs, json, text, oj)
                               ELSE fs
                        failed == loop_failure(writes_json(a), oj, img_data.ok, op)
                    IN  /\ fs' = IF (writes_json(a) /\ oj.kind # "ok") \/ ~img_data.ok
                                 THEN fs1
                                 ELSE FilesAfter(fs1, img, image, op)
                        /\ IF failed = "none"
                           THEN i' = i + 1 /\ UNCHANGED <<pc, exit_code, error>>
                           ELSE Exit(1, failed) /\ UNCHANGED i
    /\ UNCHANGED <<args, node, body, body_serialized, invoked, response_body>>
    /\ UNCHANGED norm_vars

\* the loop is exhausted and the process ends, lines 192 and 216
Finish ==
    /\ pc = "writing"
    /\ i = Len(response_body.artifacts)
    /\ Exit(0, "none")
    /\ UNCHANGED <<args, node, body, body_serialized, invoked, response_body, i, fs>>
    /\ UNCHANGED norm_vars

NoResponse == [result |-> "", artifacts |-> <<>>]

\* the process before its first step, at position p
Fresh(p) ==
    /\ pc = p
    /\ body = <<>>
    /\ body_serialized = <<>>
    /\ invoked = <<>>
    /\ response_body = NoResponse
    /\ i = 0
    /\ fs = <<>>
    /\ exit_code = -1
    /\ error = "none"

Idle == Fresh("start")

NormOff == n_pc = "off" /\ n_in = <<>> /\ n_out = <<>> /\ n_out2 = <<>>

Init ==
    /\ Idle
    /\ NormOff
    /\ node = PipelineNode
    /\ args \in [prompts : PipelinePrompts, body_params : PipelineOverrides,
                 request : Requests, output_dir : {D_output}]

Next ==
    \/ ParseArgs(args)
    \/ BuildRequest(args)
    \/ InvokeModel
    \/ WriteArtifact(args)
    \/ Finish

Spec == Init /\ [][Next]_vars

\* the steps of a run whose arguments are a
NextFor(a) ==
    \/ ParseArgs(a)
    \/ BuildRequest(a)
    \/ InvokeModel
    \/ WriteArtifact(a)
    \/ Finish

----------------------------------------------------------------------------
(* The input resolver and request builder alone, over wider inputs *)

InitBuild ==
    /\ Idle
    /\ NormOff
    /\ node \in Nodes
    /\ \/ args \in [prompts : SeqsUpTo(PromptTokens, MaxPrompts),
                    body_params : {<<>>, <<K_seed, V_42>>},
                    request : {"", "ok.json"}, output_dir : {D_output}]
       \/ args \in [prompts : {<<T_fox>>, <<T_fox, T_half>>},
                    body_params : SeqsUpTo(OverrideTokens, MaxOverrides),
                    request : {""}, output_dir : {D_output}]

NextBuild ==
    \/ ParseArgs(args)
    \/ BuildRequest(args)

SpecBuild == InitBuild /\ [][NextBuild]_vars

----------------------------------------------------------------------------
(* normalize_str alone, applied once and again to every short string *)

Normalize ==
    /\ n_pc = "in"
    /\ n_out' = normalize_str(n_in)
    /\ n_pc' = "once"
    /\ UNCHANGED <<n_in, n_out2>>
    /\ UNCHANGED pipeline_vars

Renormalize ==
    /\ n_pc = "once"
    /\ n_out2' = normalize_str(n_out)
    /\ n_pc' = "twice"
    /\ UNCHANGED <<n_in, n_out>>
    /\ UNCHANGED pipeline_vars

InitNorm ==
    /\ Fresh("off")
    /\ node = PipelineNode
    /\ args = [prompts |-> <<>>, body_params |-> <<>>, request |-> "",
               output_dir |-> D_output]
    /\ n_pc = "in"
    /\ n_in \in SeqsUpTo(NormChars, MaxStrLen)
    /\ n_out = <<>>
    /\ n_out2 = <<>>

NextNorm == Normalize \/ Renormalize

SpecNorm == InitNorm /\ [][NextNorm]_vars

----------------------------------------------------------------------------
(* Claims *)

\* C1: once the envelope's result is not "success" the process has ended with
\* exit status 1 and no file exists, whatever the artifacts are and whether
\* the body came from -p or from -r.
C1_NonSuccessWritesNothing ==
    (response_body # NoResponse /\ response_body.result # "success")
        => /\ pc = "exit"
           /\ exit_code = 1
           /\ DOMAIN fs = {}

C1_Witness ==
    /\ response_body.result = "error"
    /\ Len(response_body.artifacts) = MaxArtifacts
    /\ args.request = "ok.json"
    /\ Len(invoked) = 1
    /\ pc = "exit"

\* C2: parse_args ends the process with status 1, nothing invoked and nothing
\* written, exactly when (a) there are neither prompts nor a request file,
\* (b) the prompt count is odd and above 1, or (c) the override count is odd;
\* one prompt token and every even count pass.
C2_ParseArgsFailsFast ==
    LET np == Len(args.prompts)
        nb == Len(args.body_params)
        a == np = 0 /\ args.request = ""
        b == np > 1 /\ np % 2 = 1
        c == nb % 2 = 1
    IN  pc # "start" =>
            /\ error = "ArgumentError" <=> (a \/ b \/ c)
            /\ error = "ArgumentError" =>
                   pc = "exit" /\ exit_code = 1 /\ invoked = <<>> /\ DOMAIN fs = {}
            /\ ((np = 1 \/ (np > 0 /\ np % 2 = 0)) /\ nb % 2 = 0)
                   => error # "ArgumentError"

C2_Witness ==
    /\ error = "ArgumentError"
    /\ Len(args.prompts) = 3
    /\ Len(args.body_params) = 2
    /\ args.request = "ok.json"

\* C3: building the body from a validated prompt list p leaves p as it was;
\* a single token t gives the one entry {text: t, weight: 1.0}; 2n tokens give
\* n entries, entry k holding token 2k as text and the number token 2k+1
\* denotes as weight, in the order of the list; and, once the runtime client
\* is made, the build fails only on a weight or an override value that
\* denotes no number.
C3_ParsePrompt ==
    [][(pc = "parsed" /\ args.request = "") =>
          LET p == args.prompts
              Entry(text, weight) ==
                  DictV(<< <<K_text, StrV(text)>>, <<K_weight, weight>> >>)
              Numeric(k) == PyFloat(StrV(p[2 * k])).ok
          IN  /\ args'.prompts = p
              /\ pc' = "built" =>
                    LET tp == DictGet(body', K_text_prompts).v
                    IN  /\ Len(p) = 1 => tp = <<Entry(p[1], FloatV(<<0, 1>>, <<>>))>>
                        /\ Len(p) % 2 = 0 =>
                              /\ Len(tp) = Len(p) \div 2
                              /\ \A k \in 1..Len(tp) :
                                    /\ Numeric(k)
                                    /\ tp[k] = Entry(p[2 * k - 1],
                                                     PyFloat(StrV(p[2 * k])).val)
              /\ (pc' = "exit" /\ error' # "SessionError") =>
                    \/ \E k \in 1..(Len(p) \div 2) : ~Numeric(k)
                    \/ ~coerce(dict_of_pairs(args.body_params)).ok
      ]_vars

C3_Witness ==
    /\ pc = "built"
    /\ args.request = ""
    /\ args.prompts = <<T_fox, T_half, T_two, T_two>>
    /\ Len(DictGet(body, K_text_prompts).v) = 2

\* C4: in prompt mode the body is defaults, then overrides, then prompts,
\* the last write winning: seed is the machine's default unless overridden,
\* and then the override as an integer; every overridden numeric key holds an
\* integer and every other overridden key its raw string; text_prompts is the
\* parsed prompt list even under an override named text_prompts.
C4_MergeOrder ==
    (pc = "built" /\ args.request = "") =>
        LET ov == args.body_params
            Places(k) == {n \in 1..(Len(ov) \div 2) : ov[2 * n - 1] = k}
            Last(k) == ov[2 * (CHOOSE n \in Places(k) : \A m \in Places(k) : m <= n)]
            Keys == {ov[2 * n - 1] : n \in 1..(Len(ov) \div 2)}
        IN  /\ DictKeys(body) = {K_seed, K_text_prompts} \cup Keys
            /\ DictGet(body, K_seed) =
                   IF Places(K_seed) = {} THEN IntV(get_stable_seed(node))
                   ELSE IntV(DecToLimbs(Last(K_seed), Zero))
            /\ \A k \in Keys \ {K_text_prompts} :
                   IF k \in {K_height, K_width, K_cfg_scale, K_samples, K_seed, K_steps}
                   THEN DictGet(body, k) = IntV(DecToLimbs(Last(k), Zero))
                   ELSE DictGet(body, k) = StrV(Last(k))
            /\ DictGet(body, K_text_prompts) = ListV(parse_prompt(args.prompts).val)

C4_Witness ==
    /\ pc = "built"
    /\ args.request = ""
    /\ args.body_params = <<K_text_prompts, V_42, K_seed, V_42>>
    /\ DictGet(body, K_seed) = IntV(<<0, 42>>)

\* the same keys with the same values
SameLogical(b1, b2) ==
    /\ DictKeys(b1) = DictKeys(b2)
    /\ \A k \in DictKeys(b1) : DictGet(b1, k) = DictGet(b2, k)

\* the same key/value pairs, each as many times, in any order
Reordered(ov1, ov2) ==
    LET ps1 == pairs(ov1)
        ps2 == pairs(ov2)
        Count(ps, x) == Cardinality({n \in 1..Len(ps) : ps[n] = x})
    IN  /\ Len(ov1) = Len(ov2)
        /\ \A n \in 1..Len(ps1) : Count(ps1, ps1[n]) = Count(ps2, ps1[n])

\* C5: a run given the overrides of this run in another order, when its body
\* is logically the body of this run (same keys, same values, same prompt
\* order), serializes it to the same bytes and so has the same fingerprint
\* and the same basename.
C5_CanonicalSerialization ==
    (pc = "built" /\ args.request = "") =>
        \A ov \in SeqsUpTo(OverrideTokens, MaxOverrides) :
            LET other == [args EXCEPT !.body_params = ov]
                built == build_body(other, node)
            IN  (/\ Reordered(ov, args.body_params)
                 /\ ~parse_args_rejects(other)
                 /\ built.ok
                 /\ SameLogical(built.val, body))
                    => LET serialized == json_dumps(DictV(built.val))
                       IN  /\ serialized = body_serialized
                           /\ body_hash(serialized) = body_hash(body_serialized)
                           /\ filename_base(built.val, serialized, 0)
                                  = filename_base(body, body_serialized, 0)

\* C6: normalize_str gives a result for every string; the result holds only
\* letters, digits and underscores, has no underscore at either end and no
\* two underscores in a row, and normalizing it again changes nothing.
C6_NormalizeIdempotent ==
    /\ n_pc \in {"once", "twice"} =>
          /\ \A k \in 1..Len(n_out) : n_out[k] \in Alnum \cup {"_"}
          /\ Len(n_out) > 0 => n_out[1] # "_" /\ n_out[Len(n_out)] # "_"
          /\ \A k \in 1..(Len(n_out) - 1) : ~(n_out[k] = "_" /\ n_out[k + 1] = "_")
    /\ n_pc = "twice" => n_out2 = n_out

C6_Witness ==
    /\ n_pc = "twice"
    /\ n_in = <<"_", ".", "_", "a">>
    /\ n_out = <<"a">>

\* the run with the same -r and neither -p nor -b
WithoutPromptArgs(a) == [a EXCEPT !.prompts = <<>>, !.body_params = <<>>]

\* C7 as claimed: with -r given, every step of the run, whatever -p and -b
\* hold, is a step of the run with the same -r and no -p/-b.
C7_RequestIgnoresPromptArgs ==
    [][args.request # "" => NextFor(WithoutPromptArgs(args))]_vars

\* C7 as amended: with -r given and -p and -b passing the count checks of
\* parse_args (no odd prompt count above 1, no odd override count), every
\* step of the run is a step of the run with the same -r and no -p/-b: the
\* same body is sent, the same files are written, the same status returned.
C7_RequestIgnoresCountedPromptArgs ==
    [][(/\ args.request # ""
        /\ ~(Len(args.prompts) > 1 /\ Len(args.prompts) % 2 = 1)
        /\ Len(args.body_params) % 2 = 0)
          => NextFor(WithoutPromptArgs(args))]_vars

C7_Witness ==
    /\ args.request = "ok.json"
    /\ args.prompts = <<T_fox, T_fox>>
    /\ args.body_params = <<K_seed, K_seed>>
    /\ pc = "exit"
    /\ exit_code = 0
    /\ DOMAIN fs # {}

EndsWith(s, tail) ==
    Len(s) >= Len(tail) /\ SubSeq(s, Len(s) - Len(tail) + 1, Len(s)) = tail

\* C8: the image of every artifact k written so far is the file
\* {output-dir}/{slug}{suffix}_{fingerprint}.png, suffix empty for k = 0 and
\* _k above; the .json file of that basename exists if and only if the
\* request was not loaded with -r, and holds the bytes sent to the service;
\* a run that ends with status 0 has written every artifact.
C8_ArtifactFiles ==
    (pc \in {"writing", "exit"} /\ response_body.result = "success" /\ i > 0) =>
        LET sent == invoked[1]
            slug == normalize_prompts(DictGet(body, K_text_prompts).v)
            fingerprint == body_hash(sent)
            Basename(k) == args.output_dir \o <<"/">> \o slug
                           \o (IF k = 0 THEN <<>> ELSE <<"_">> \o IntRepr(<<0, k>>))
                           \o <<"_">> \o fingerprint
        IN  /\ \A k \in 0..(i - 1) :
                  /\ Basename(k) \o S_png \in DOMAIN fs
                  /\ fs[Basename(k) \o S_png] =
                         BytesFile(b64decode(response_body.artifacts[k + 1].base64).val)
                  /\ Basename(k) \o S_json \in DOMAIN fs <=> args.request = ""
                  /\ args.request = "" => fs[Basename(k) \o S_json] = TextFile(sent)
            /\ args.request # "" => \A n \in DOMAIN fs : ~EndsWith(n, S_json)
            /\ (pc = "exit" /\ exit_code = 0) => i = Len(response_body.artifacts)

C8_Witness ==
    /\ pc = "exit"
    /\ exit_code = 0
    /\ i = MaxArtifacts
    /\ args.request = ""
    /\ Cardinality(DOMAIN fs) = 2 * MaxArtifacts

\* C9: every body handed to the remote invocation holds a text_prompts list,
\* from -p and from -r alike, so the file names of the artifacts are defined.
C9_BodyHasTextPrompts ==
    Len(invoked) > 0 =>
        /\ DictHas(body, K_text_prompts)
        /\ DictGet(body, K_text_prompts).t = "list"
        /\ error # "KeyError"

\* the files of artifact k
ArtifactFiles(k) ==
    {filename_json(args, filename_base(body, body_serialized, k)),
     filename_img(args, filename_base(body, body_serialized, k))}

\* C10: the artifacts are written in the order of the response and nothing
\* is rolled back: a turn of the loop that does not leave the files of
\* artifact i complete ends the process with status 1, leaves every file of
\* artifacts 0..i-1 in place and unchanged and writes no file of a later
\* artifact; the ended process takes no further step.
C10_NoRollback ==
    [][/\ pc # "exit"
       /\ (pc = "writing" /\ i < Len(response_body.artifacts)) =>
             IF ~DictHas(body, K_text_prompts)
             THEN pc' = "exit" /\ exit_code' = 1 /\ fs' = fs
             ELSE LET img == filename_img(args, filename_base(body, body_serialized, i))
                      json == filename_json(args, filename_base(body, body_serialized, i))
                      data == b64decode(response_body.artifacts[i + 1].base64)
                      complete ==
                          /\ data.ok
                          /\ img \in DOMAIN fs' /\ fs'[img] = BytesFile(data.val)
                          /\ args.request = "" =>
                                /\ json \in DOMAIN fs'
                                /\ fs'[json] = TextFile(body_serialized)
                  IN  /\ complete => i' = i + 1 /\ pc' = "writing"
                      /\ ~complete =>
                            /\ pc' = "exit" /\ exit_code' = 1
                            /\ \A k \in 0..(i - 1) : \A n \in ArtifactFiles(k) :
                                  n \in DOMAIN fs => n \in DOMAIN fs' /\ fs'[n] = fs[n]
                            /\ \A k \in (i + 1)..(Len(response_body.artifacts) - 1) :
                                  ArtifactFiles(k) \cap DOMAIN fs' = {}
                      /\ \A k \in 0..(i - 1) :
                            filename_img(args, filename_base(body, body_serialized, k))
                                \in DOMAIN fs
      ]_vars

C10_Witness ==
    /\ pc = "exit"
    /\ exit_code = 1
    /\ error = "IOError"
    /\ i = 1
    /\ Len(response_body.artifacts) = MaxArtifacts
    /\ args.request = ""
    /\ Cardinality(DOMAIN fs) = 4
    /\ \E n \in DOMAIN fs : fs[n] = BytesFile(<<65, 66>>)

====
